---- MODULE Spec2Model ----
(***************************************************************************)
(* A model of elizadb: the Smallset open-addressing set (smallset.rs), the *)
(* term table (doublemap.rs), the two-tier Database (storage.rs), its      *)
(* queries (query.rs) and its persistence (serde.rs).                      *)
(***************************************************************************)
EXTENDS Integers, Sequences, FiniteSets, TLC

(***************************************************************************)
(* Bounds of the model.                                                    *)
(***************************************************************************)
\* Database<const SMALLSIZE> / Smallset<const SIZE>: the generic capacity.
SMALLSIZE == 2
\* keys are 1..NumKeys (Key = NonZeroU64)
NumKeys == 2
\* calls made on the engine in one run of Spec, which records each call
MaxCalls == 4
\* calls made on the engine in one run of SpecDeep, which records none
MaxDeep == 5
\* longest term list of a KofN query
MaxQueryTerms == 2
\* the Smallset items tried by the Smallset specification are 1..MaxItem and 254
MaxItem == 7
\* removes counted by the Smallset specification
MaxRemoves == 2
\* two_phase_save calls made in one run
MaxSaves == 2
\* a dump is 1..MaxDumpUnits units of bytes long
MaxDumpUnits == 3
\* units the BufWriter of write_to_file holds before it writes to the file
BufCap == 2
\* longest key list and longest set list of a document given to load
MaxDocLen == 2

(***************************************************************************)
(* Program constants.                                                      *)
(***************************************************************************)
EMPTY_SLOT == 0
TOMBSTONE == 255
MaxTerms == 253

\* Option<Key>::None: Key is NonZeroU64, so None is the niche value 0
NoKey == 0
Keys == 1..NumKeys

\* term strings: the i-th string of the model is Str(i), never equal to an id
Str(i) == 1000 + i
\* the engine specification uses SMALLSIZE + 2 term strings
NumTerms == SMALLSIZE + 2

Slots == 0..(SMALLSIZE - 1)

VARIABLES
    terms,          \* Database.terms: [forward, backward]
    index,          \* Database.index: Key -> IndexLocation
    holes,          \* Database.holes: VecDeque<usize>
    small_keys,     \* Database.small_keys: Vec<Option<Key>>
    small_storage,  \* Database.small_storage: one Smallset array per slot
    big_storage,    \* Database.big_storage: Key -> set of term ids
    last,           \* the last call made on the engine and what it returned
    seen,           \* term strings in the order add_term first saw them
    given,          \* given[k]: the strings set_flag(k, _) returned Ok for
    calls,          \* number of calls made on the engine
    sset,           \* Smallset.backing_storage of the set under test
    ss_live,        \* the values inserted into sset and not removed since
    ss_removes,     \* number of remove calls made on sset
    ss_last,        \* the last call made on sset and what it returned
    fpath,          \* the file at the final path of two_phase_save
    ftemp,          \* the file at the temp path
    fprev,          \* the file at the final path when the save started
    save,           \* the running two_phase_save call
    lock,           \* the RwLock around the Database: its writer and readers
    req,            \* req[p]: the request that task p is handling
    committed,      \* the Database after the requests completed so far
    load_doc,       \* the document given to load
    loaded          \* what load returned for it

engine_vars == <<terms, index, holes, small_keys, small_storage, big_storage>>

record_vars == <<last, seen, given, calls>>

smallset_vars == <<sset, ss_live, ss_removes, ss_last>>

save_vars == <<fpath, ftemp, fprev, save>>

lock_vars == <<lock, req, committed>>

load_vars == <<load_doc, loaded>>

(***************************************************************************)
(* smallset.rs                                                             *)
(***************************************************************************)
new_empty == [i \in Slots |-> EMPTY_SLOT]

hash(data) == data % SMALLSIZE

probe(previous_index) == (previous_index + 1) % SMALLSIZE

IsSentinel(item) == item = EMPTY_SLOT \/ item = TOMBSTONE

RECURSIVE contains_loop(_, _, _, _)
contains_loop(bs, data, look_position, attempt) ==
    IF attempt < SMALLSIZE
    THEN IF bs[look_position] = data THEN TRUE
         ELSE IF bs[look_position] = EMPTY_SLOT THEN FALSE
         ELSE contains_loop(bs, data, probe(look_position), attempt + 1)
    ELSE FALSE

contains(bs, data) == contains_loop(bs, data, hash(data), 0)

\* -1 stands for Option::None
RECURSIVE locate_loop(_, _, _, _)
locate_loop(bs, data, look_position, attempt) ==
    IF attempt < SMALLSIZE
    THEN IF \/ bs[look_position] = data
            \/ bs[look_position] = EMPTY_SLOT
            \/ bs[look_position] = TOMBSTONE
         THEN look_position
         ELSE locate_loop(bs, data, probe(look_position), attempt + 1)
    ELSE -1

locate_slot_mut(bs, data) == locate_loop(bs, data, hash(data), 0)

locate_insertion_slot(bs, data) == locate_loop(bs, data, hash(data), 0)

\* insert as it would be if it reported every stored value as new
insert_always_new(bs, data) ==
    LET slot == locate_slot_mut(bs, data) IN
    IF slot = -1 THEN [ok |-> FALSE, val |-> FALSE, bs |-> bs]
    ELSE [ok |-> TRUE, val |-> TRUE, bs |-> [bs EXCEPT ![slot] = data]]

\* insert as it would be if it reported a full array before it looked for
\* the value
insert_full_first(bs, data) ==
    LET slot == locate_slot_mut(bs, data) IN
    IF slot = -1 \/ (\A i \in Slots : ~IsSentinel(bs[i]))
    THEN [ok |-> FALSE, val |-> FALSE, bs |-> bs]
    ELSE IF bs[slot] = data THEN [ok |-> TRUE, val |-> FALSE, bs |-> bs]
    ELSE [ok |-> TRUE, val |-> TRUE, bs |-> [bs EXCEPT ![slot] = data]]

\* Result<bool, u8> and the array after the call
insert(bs, data) ==
    LET slot == locate_slot_mut(bs, data) IN
    IF slot = -1 THEN [ok |-> FALSE, val |-> FALSE, bs |-> bs]
    ELSE IF bs[slot] = data THEN [ok |-> TRUE, val |-> FALSE, bs |-> bs]
    ELSE [ok |-> TRUE, val |-> TRUE, bs |-> [bs EXCEPT ![slot] = data]]

\* remove as it would be if it always cleared the slot to EMPTY_SLOT
remove_to_empty(bs, data) ==
    LET slot == locate_insertion_slot(bs, data) IN
    IF slot = -1 THEN [val |-> FALSE, bs |-> bs]
    ELSE IF bs[slot] = EMPTY_SLOT \/ bs[slot] = TOMBSTONE
    THEN [val |-> FALSE, bs |-> bs]
    ELSE [val |-> TRUE, bs |-> [bs EXCEPT ![slot] = EMPTY_SLOT]]

remove(bs, data) ==
    LET slot == locate_insertion_slot(bs, data) IN
    IF slot = -1 THEN [val |-> FALSE, bs |-> bs]
    ELSE IF bs[slot] = EMPTY_SLOT \/ bs[slot] = TOMBSTONE
    THEN [val |-> FALSE, bs |-> bs]
    ELSE [val |-> TRUE,
          bs |-> [bs EXCEPT ![slot] =
                    IF bs[probe(slot)] = EMPTY_SLOT THEN EMPTY_SLOT ELSE TOMBSTONE]]

size(bs) == Cardinality({i \in Slots : ~IsSentinel(bs[i])})

iter(bs) == {bs[i] : i \in {j \in Slots : ~IsSentinel(bs[j])}}

(***************************************************************************)
(* doublemap.rs                                                            *)
(***************************************************************************)
EmptyMap == [x \in {} |-> 0]

MapInsert(m, k, v) == [x \in (DOMAIN m) \cup {k} |-> IF x = k THEN v ELSE m[x]]

DoubleMapNew == [forward |-> EmptyMap, backward |-> EmptyMap]

DoubleMapInsert(dm, first, second) ==
    [forward |-> MapInsert(dm.forward, first, second),
     backward |-> MapInsert(dm.backward, second, first)]

get_forward(dm, key) ==
    IF key \in DOMAIN dm.forward THEN [some |-> TRUE, val |-> dm.forward[key]]
    ELSE [some |-> FALSE, val |-> 0]

get_backward(dm, key) ==
    IF key \in DOMAIN dm.backward THEN [some |-> TRUE, val |-> dm.backward[key]]
    ELSE [some |-> FALSE, val |-> 0]

DoubleMapLen(dm) == Cardinality(DOMAIN dm.forward)

(***************************************************************************)
(* storage.rs                                                              *)
(***************************************************************************)
Small(offset) == [tag |-> "Small", off |-> offset]
Big == [tag |-> "Big", off |-> 0]

DatabaseDefault ==
    [terms |-> DoubleMapNew, index |-> EmptyMap, holes |-> <<>>,
     small_keys |-> <<>>, small_storage |-> <<>>, big_storage |-> EmptyMap]

\* Option<&[u8; SMALLSIZE]>: slot `idx` is element idx + 1 of the sequence
get_view(db, idx) ==
    IF idx + 1 > Len(db.small_storage) THEN [some |-> FALSE, val |-> new_empty]
    ELSE [some |-> TRUE, val |-> db.small_storage[idx + 1]]

\* create_record as it would be if a reused slot kept its old Smallset
create_record_no_clear(db, key) ==
    IF key \in DOMAIN db.index THEN [db |-> db, val |-> FALSE]
    ELSE IF Len(db.holes) > 0
    THEN LET hole == db.holes[Len(db.holes)] IN
         [db |-> [db EXCEPT
                    !.holes = SubSeq(db.holes, 1, Len(db.holes) - 1),
                    !.index = MapInsert(db.index, key, Small(hole)),
                    !.small_keys = [db.small_keys EXCEPT ![hole + 1] = key]],
          val |-> TRUE]
    ELSE [db |-> [db EXCEPT
                    !.index = MapInsert(db.index, key, Small(Len(db.small_storage))),
                    !.small_keys = Append(db.small_keys, key),
                    !.small_storage = Append(db.small_storage, new_empty)],
          val |-> TRUE]

\* create_record as it would be if it registered the new key as Big
create_record_as_big(db, key) ==
    IF key \in DOMAIN db.index THEN [db |-> db, val |-> FALSE]
    ELSE [db |-> [db EXCEPT
                    !.index = MapInsert(db.index, key, Big),
                    !.small_keys = Append(db.small_keys, key),
                    !.small_storage = Append(db.small_storage, new_empty)],
          val |-> TRUE]

\* create_record as it would be if it never took a slot from the holes
create_record_always_appends(db, key) ==
    IF key \in DOMAIN db.index THEN [db |-> db, val |-> FALSE]
    ELSE [db |-> [db EXCEPT
                    !.index = MapInsert(db.index, key, Small(Len(db.small_storage))),
                    !.small_keys = Append(db.small_keys, key),
                    !.small_storage = Append(db.small_storage, new_empty)],
          val |-> TRUE]

\* create_record as it would be if it left the reused slot in the holes
create_record_keeps_hole(db, key) ==
    IF key \in DOMAIN db.index THEN [db |-> db, val |-> FALSE]
    ELSE IF Len(db.holes) > 0
    THEN LET hole == db.holes[Len(db.holes)] IN
         [db |-> [db EXCEPT
                    !.index = MapInsert(db.index, key, Small(hole)),
                    !.small_storage = [db.small_storage EXCEPT ![hole + 1] = new_empty],
                    !.small_keys = [db.small_keys EXCEPT ![hole + 1] = key]],
          val |-> TRUE]
    ELSE [db |-> [db EXCEPT
                    !.index = MapInsert(db.index, key, Small(Len(db.small_storage))),
                    !.small_keys = Append(db.small_keys, key),
                    !.small_storage = Append(db.small_storage, new_empty)],
          val |-> TRUE]

create_record(db, key) ==
    IF key \in DOMAIN db.index THEN [db |-> db, val |-> FALSE]
    ELSE IF Len(db.holes) > 0
    THEN LET hole == db.holes[Len(db.holes)] IN
         [db |-> [db EXCEPT
                    !.holes = SubSeq(db.holes, 1, Len(db.holes) - 1),
                    !.index = MapInsert(db.index, key, Small(hole)),
                    !.small_storage = [db.small_storage EXCEPT ![hole + 1] = new_empty],
                    !.small_keys = [db.small_keys EXCEPT ![hole + 1] = key]],
          val |-> TRUE]
    ELSE [db |-> [db EXCEPT
                    !.index = MapInsert(db.index, key, Small(Len(db.small_storage))),
                    !.small_keys = Append(db.small_keys, key),
                    !.small_storage = Append(db.small_storage, new_empty)],
          val |-> TRUE]

\* add_term as it would be if ids were counted from 0
add_term_from_zero(db, term) ==
    LET loc == get_forward(db.terms, term) IN
    IF loc.some THEN [db |-> db, ok |-> TRUE, val |-> loc.val]
    ELSE IF DoubleMapLen(db.terms) = MaxTerms THEN [db |-> db, ok |-> FALSE, val |-> 0]
    ELSE LET new_index == DoubleMapLen(db.terms)
             t == DoubleMapInsert(db.terms, term, new_index % 256)
         IN [db |-> [db EXCEPT !.terms = t], ok |-> TRUE, val |-> t.forward[term]]

add_term(db, term) ==
    LET loc == get_forward(db.terms, term) IN
    IF loc.some THEN [db |-> db, ok |-> TRUE, val |-> loc.val]
    ELSE IF DoubleMapLen(db.terms) = MaxTerms THEN [db |-> db, ok |-> FALSE, val |-> 0]
    ELSE LET new_index == 1 + DoubleMapLen(db.terms)
             t == DoubleMapInsert(db.terms, term, new_index % 256)
         IN [db |-> [db EXCEPT !.terms = t], ok |-> TRUE, val |-> t.forward[term]]

\* evict_into_large as it would be if it skipped the copy of the Smallset
evict_without_copy(db, key) ==
    IF key \notin DOMAIN db.index
    THEN [db EXCEPT !.index = MapInsert(db.index, key, Big)]
    ELSE IF db.index[key].tag = "Big" THEN db
    ELSE LET small_index == db.index[key].off
             old == IF key \in DOMAIN db.big_storage THEN db.big_storage[key] ELSE {}
         IN [db EXCEPT
               !.big_storage = MapInsert(db.big_storage, key, old),
               !.index = MapInsert(db.index, key, Big),
               !.holes = Append(db.holes, small_index),
               !.small_keys = [db.small_keys EXCEPT ![small_index + 1] = NoKey]]

\* evict_into_large as it would be if it left the slot bound to the key
evict_keeps_binding(db, key) ==
    IF key \notin DOMAIN db.index
    THEN [db EXCEPT !.index = MapInsert(db.index, key, Big)]
    ELSE IF db.index[key].tag = "Big" THEN db
    ELSE LET small_index == db.index[key].off
             current_state == get_view(db, small_index).val
             old == IF key \in DOMAIN db.big_storage THEN db.big_storage[key] ELSE {}
         IN [db EXCEPT
               !.big_storage = MapInsert(db.big_storage, key, old \cup iter(current_state)),
               !.index = MapInsert(db.index, key, Big),
               !.holes = Append(db.holes, small_index)]

evict_into_large(db, key) ==
    IF key \notin DOMAIN db.index
    THEN [db EXCEPT !.index = MapInsert(db.index, key, Big)]
    ELSE IF db.index[key].tag = "Big" THEN db
    ELSE LET small_index == db.index[key].off
             current_state == get_view(db, small_index).val
             old == IF key \in DOMAIN db.big_storage THEN db.big_storage[key] ELSE {}
         IN [db EXCEPT
               !.big_storage = MapInsert(db.big_storage, key, old \cup iter(current_state)),
               !.index = MapInsert(db.index, key, Big),
               !.holes = Append(db.holes, small_index),
               !.small_keys = [db.small_keys EXCEPT ![small_index + 1] = NoKey]]

\* the match of set_flag once the term is interned and the record exists;
\* `retry` is FALSE in the recursive call made after evict_into_large
set_flag_match(db, key, term_index, retry) ==
    IF db.index[key].tag = "Small"
    THEN LET idx == db.index[key].off
             r == insert(get_view(db, idx).val, term_index)
         IN IF r.ok
            THEN [db |-> [db EXCEPT !.small_storage[idx + 1] = r.bs],
                  ok |-> TRUE, val |-> r.val, evicted |-> FALSE]
            ELSE [db |-> evict_into_large(db, key), ok |-> FALSE, val |-> FALSE,
                  evicted |-> TRUE]
    ELSE LET old == IF key \in DOMAIN db.big_storage THEN db.big_storage[key] ELSE {}
         IN [db |-> [db EXCEPT !.big_storage = MapInsert(db.big_storage, key,
                                                          old \cup {term_index})],
             ok |-> TRUE, val |-> term_index \notin old, evicted |-> FALSE]

\* set_flag as it would be if it created the record before it interned the
\* term
RECURSIVE set_flag_creates_first(_, _, _)
set_flag_creates_first(db, key, term) ==
    LET c == create_record(db, key)
        t == add_term(c.db, term)
    IN IF ~t.ok THEN [db |-> c.db, ok |-> FALSE, val |-> FALSE, retries |-> 0]
       ELSE LET m == set_flag_match(t.db, key, t.val, TRUE)
            IN IF m.evicted
               THEN LET r == set_flag_creates_first(m.db, key, term)
                    IN [r EXCEPT !.retries = @ + 1]
               ELSE [db |-> m.db, ok |-> m.ok, val |-> m.val, retries |-> 0]

\* set_flag as it would be if it reported the full Smallset after the
\* eviction instead of calling itself again
set_flag_no_retry(db, key, term) ==
    LET t == add_term(db, term) IN
    IF ~t.ok THEN [db |-> db, ok |-> FALSE, val |-> FALSE, retries |-> 0]
    ELSE LET c == create_record(t.db, key)
             m == set_flag_match(c.db, key, t.val, TRUE)
         IN [db |-> m.db, ok |-> m.ok, val |-> m.val, retries |-> 0]

\* Result<bool, ()> and the database after the call; retries counts the
\* calls set_flag made to itself
RECURSIVE set_flag(_, _, _)
set_flag(db, key, term) ==
    LET t == add_term(db, term) IN
    IF ~t.ok THEN [db |-> db, ok |-> FALSE, val |-> FALSE, retries |-> 0]
    ELSE LET c == create_record(t.db, key)
             m == set_flag_match(c.db, key, t.val, TRUE)
         IN IF m.evicted
            THEN LET r == set_flag(m.db, key, term) IN [r EXCEPT !.retries = @ + 1]
            ELSE [db |-> m.db, ok |-> m.ok, val |-> m.val, retries |-> 0]

(***************************************************************************)
(* The same operations statement by statement: the Database after each     *)
(* statement that writes to it, in the order of the code. This is what a   *)
(* task that read the Database while the operation runs could see.         *)
(***************************************************************************)
LastOf(db, steps) == IF steps = <<>> THEN db ELSE steps[Len(steps)]

\* DoubleMap::insert writes the forward map, then the backward map
add_term_steps(db, term) ==
    IF get_forward(db.terms, term).some \/ DoubleMapLen(db.terms) = MaxTerms THEN <<>>
    ELSE LET new_index == (1 + DoubleMapLen(db.terms)) % 256 IN
         << [db EXCEPT !.terms.forward = MapInsert(@, term, new_index)],
            [db EXCEPT !.terms = DoubleMapInsert(@, term, new_index)] >>

create_record_steps(db, key) ==
    IF key \in DOMAIN db.index THEN <<>>
    ELSE IF Len(db.holes) > 0
    THEN LET hole == db.holes[Len(db.holes)]
             d1 == [db EXCEPT !.holes = SubSeq(@, 1, Len(@) - 1)]
             d2 == [d1 EXCEPT !.index = MapInsert(@, key, Small(hole))]
             d3 == [d2 EXCEPT !.small_storage[hole + 1] = new_empty]
             d4 == [d3 EXCEPT !.small_keys[hole + 1] = key]
         IN <<d1, d2, d3, d4>>
    ELSE LET d1 == [db EXCEPT !.index = MapInsert(@, key, Small(Len(db.small_storage)))]
             d2 == [d1 EXCEPT !.small_keys = Append(@, key)]
             d3 == [d2 EXCEPT !.small_storage = Append(@, new_empty)]
         IN <<d1, d2, d3>>

\* evict_into_large of a key that is Small
evict_into_large_steps(db, key) ==
    LET small_index == db.index[key].off
        current_state == get_view(db, small_index).val
        old == IF key \in DOMAIN db.big_storage THEN db.big_storage[key] ELSE {}
        d1 == [db EXCEPT !.big_storage = MapInsert(@, key, old)]
        d2 == [d1 EXCEPT !.big_storage = MapInsert(@, key, old \cup iter(current_state))]
        d3 == [d2 EXCEPT !.index = MapInsert(@, key, Big)]
        d4 == [d3 EXCEPT !.holes = Append(@, small_index)]
        d5 == [d4 EXCEPT !.small_keys[small_index + 1] = NoKey]
    IN <<d1, d2, d3, d4, d5>>

\* big_storage.entry(key).or_default().insert(term_index)
big_insert_steps(db, key, term_index) ==
    IF key \in DOMAIN db.big_storage /\ term_index \in db.big_storage[key] THEN <<>>
    ELSE LET old == IF key \in DOMAIN db.big_storage THEN db.big_storage[key] ELSE {}
         IN << [db EXCEPT !.big_storage = MapInsert(@, key, old \cup {term_index})] >>

\* the call set_flag makes to itself after the eviction finds the term
\* interned, the record created and the key Big
set_flag_steps(db, key, term) ==
    LET t == add_term(db, term) IN
    IF ~t.ok THEN <<>>
    ELSE LET a == add_term_steps(db, term)
             d1 == LastOf(db, a)
             c == create_record_steps(d1, key)
             d2 == LastOf(d1, c)
             m == IF d2.index[key].tag = "Small"
                  THEN LET idx == d2.index[key].off
                           r == insert(get_view(d2, idx).val, t.val)
                       IN IF r.ok
                          THEN IF r.val
                               THEN << [d2 EXCEPT !.small_storage[idx + 1] = r.bs] >>
                               ELSE <<>>
                          ELSE LET e == evict_into_large_steps(d2, key)
                               IN e \o big_insert_steps(LastOf(d2, e), key, t.val)
                  ELSE big_insert_steps(d2, key, t.val)
         IN a \o c \o m

(***************************************************************************)
(* query.rs                                                                *)
(***************************************************************************)
None == [some |-> FALSE, val |-> {}]
Some(v) == [some |-> TRUE, val |-> v]

explain_term_id(db, term_id) == get_backward(db.terms, term_id)

get_term_id(db, term) == get_forward(db.terms, term)

\* filter_map(|item| self.explain_term_id(item)).collect()
Explained(db, ids) ==
    {explain_term_id(db, item).val : item \in {i \in ids : explain_term_id(db, i).some}}

horizontal_query(db, key) ==
    IF key \notin DOMAIN db.index THEN None
    ELSE IF db.index[key].tag = "Small"
    THEN LET v == get_view(db, db.index[key].off) IN
         IF ~v.some THEN None ELSE Some(Explained(db, iter(v.val)))
    ELSE IF key \notin DOMAIN db.big_storage THEN None
    ELSE Some(Explained(db, db.big_storage[key]))

Min(a, b) == IF a < b THEN a ELSE b

\* the pairs of small_keys.iter().zip(small_storage.iter())
Zipped(db) == 1..Min(Len(db.small_keys), Len(db.small_storage))

\* small_keys.iter().zip(small_storage.iter()).filter_map(..): the bound keys,
\* in slot order, whose Smallset passes the test (pass[i] for pair i)
SmallScan(db, pass) ==
    LET n == Min(Len(db.small_keys), Len(db.small_storage))
        hits == SelectSeq([i \in 1..n |-> i],
                          LAMBDA i : db.small_keys[i] # NoKey /\ pass[i])
    IN [j \in 1..Len(hits) |-> db.small_keys[hits[j]]]

\* big_storage.iter().filter_map(..): HashMap iteration visits the entries in
\* an unspecified order, given here as the sequence `ord`; pass[k] is the
\* test of the set of key k
BigScan(db, ord, pass) == SelectSeq(ord, LAMBDA k : pass[k])

\* the orders in which a HashMap may iterate over big_storage
BigOrders(db) ==
    LET ks == DOMAIN db.big_storage
        n == Cardinality(ks)
    IN {s \in [1..n -> ks] : \A i, j \in 1..n : i # j => s[i] # s[j]}

\* simple_vertical_query as it would be if it scanned the inline slots only
simple_vertical_query_inline_only(db, term_id, ord) ==
    SmallScan(db, [i \in Zipped(db) |-> contains(db.small_storage[i], term_id)])

simple_vertical_query(db, term_id, ord) ==
    SmallScan(db, [i \in Zipped(db) |-> contains(db.small_storage[i], term_id)])
        \o BigScan(db, ord, [k \in DOMAIN db.big_storage |-> term_id \in db.big_storage[k]])

\* the counting loop as it would be if it compared the count with 1
RECURSIVE k_of_n_small_any(_, _, _, _, _)
k_of_n_small_any(set, ts, bound, i, total) ==
    IF i > Len(ts) THEN FALSE
    ELSE LET total2 == IF contains(set, ts[i]) THEN total + 1 ELSE total IN
         IF total2 >= 1 THEN TRUE
         ELSE k_of_n_small_any(set, ts, bound, i + 1, total2)

\* the counting loop of k_of_n_query over an inline Smallset
RECURSIVE k_of_n_small(_, _, _, _, _)
k_of_n_small(set, ts, bound, i, total) ==
    IF i > Len(ts) THEN FALSE
    ELSE LET total2 == IF contains(set, ts[i]) THEN total + 1 ELSE total IN
         IF total2 >= bound THEN TRUE
         ELSE k_of_n_small(set, ts, bound, i + 1, total2)

\* the counting loop of k_of_n_query over a big-storage HashSet
RECURSIVE k_of_n_big(_, _, _, _, _)
k_of_n_big(set, ts, bound, i, total) ==
    IF i > Len(ts) THEN FALSE
    ELSE LET total2 == IF ts[i] \in set THEN total + 1 ELSE total IN
         IF total2 >= bound THEN TRUE
         ELSE k_of_n_big(set, ts, bound, i + 1, total2)

k_of_n_query(db, ts, bound, ord) ==
    SmallScan(db, [i \in Zipped(db) |->
                     k_of_n_small(db.small_storage[i], ts, bound, 1, 0)])
        \o BigScan(db, ord, [k \in DOMAIN db.big_storage |->
                                k_of_n_big(db.big_storage[k], ts, bound, 1, 0)])

\* index of the first term of the list that is not interned, 0 if all are
RECURSIVE FirstUnresolved(_, _, _)
FirstUnresolved(db, ts, i) ==
    IF i > Len(ts) THEN 0
    ELSE IF ~get_term_id(db, ts[i]).some THEN i
    ELSE FirstUnresolved(db, ts, i + 1)

\* vertical_query as it would be if it left out the terms it cannot resolve
vertical_query_skips_unknown(db, query, ord) ==
    IF query.type = "Simple"
    THEN LET id == get_term_id(db, query.term) IN
         IF ~id.some THEN [ok |-> TRUE, err |-> 0, val |-> <<>>]
         ELSE [ok |-> TRUE, err |-> 0, val |-> simple_vertical_query(db, id.val, ord)]
    ELSE LET known == SelectSeq(query.terms, LAMBDA s : get_term_id(db, s).some)
             resolved_terms == [i \in 1..Len(known) |-> get_term_id(db, known[i]).val]
         IN [ok |-> TRUE, err |-> 0,
             val |-> k_of_n_query(db, resolved_terms, query.bound, ord)]

\* queries: [type |-> "Simple", term |-> s] and
\*          [type |-> "KofN", terms |-> <<s, ..>>, bound |-> n]
\* Result<Vec<Key>, String>: err is the unresolved term named by the message
vertical_query(db, query, ord) ==
    IF query.type = "Simple"
    THEN LET id == get_term_id(db, query.term) IN
         IF ~id.some THEN [ok |-> FALSE, err |-> query.term, val |-> <<>>]
         ELSE [ok |-> TRUE, err |-> 0, val |-> simple_vertical_query(db, id.val, ord)]
    ELSE LET bad == FirstUnresolved(db, query.terms, 1) IN
         IF bad # 0 THEN [ok |-> FALSE, err |-> query.terms[bad], val |-> <<>>]
         ELSE LET resolved_terms == [i \in 1..Len(query.terms) |->
                                        get_term_id(db, query.terms[i]).val]
              IN [ok |-> TRUE, err |-> 0,
                  val |-> k_of_n_query(db, resolved_terms, query.bound, ord)]

(***************************************************************************)
(* serde.rs                                                                *)
(***************************************************************************)
\* compact_small_items as it would be if it wrote the vacated slots too
compact_small_items_keeps_vacated(db) ==
    LET n == Min(Len(db.small_keys), Len(db.small_storage))
    IN [keys |-> [j \in 1..n |-> db.small_keys[j]],
        values |-> [j \in 1..n |-> db.small_storage[j]]]

compact_small_items(db) ==
    LET n == Min(Len(db.small_keys), Len(db.small_storage))
        bound == SelectSeq([i \in 1..n |-> i], LAMBDA i : db.small_keys[i] # NoKey)
    IN [keys |-> [j \in 1..Len(bound) |-> db.small_keys[bound[j]]],
        values |-> [j \in 1..Len(bound) |-> db.small_storage[bound[j]]]]

\* the term strings sorted by their id: position i holds the string with
\* i - 1 smaller ids (no two strings of a DoubleMap share an id)
compact_terms(db) ==
    LET f == db.terms.forward
        n == Cardinality(DOMAIN f)
    IN [i \in 1..n |->
          CHOOSE t \in DOMAIN f : Cardinality({u \in DOMAIN f : f[u] < f[t]}) = i - 1]

\* the SerializationScheme document that dump encodes
dump(db) ==
    LET c == compact_small_items(db) IN
    [terms |-> compact_terms(db), small_keys |-> c.keys,
     small_storage |-> c.values, big_storage |-> db.big_storage]

\* for (i, key) in small_keys.enumerate(): insert Small(i); then every
\* big_storage key: insert Big (a later insert replaces an earlier one)
build_index(doc_small_keys, doc_big_storage) ==
    LET ks == {doc_small_keys[i] : i \in 1..Len(doc_small_keys)} \cup DOMAIN doc_big_storage
        LastPos(k) == CHOOSE i \in 1..Len(doc_small_keys) :
                         /\ doc_small_keys[i] = k
                         /\ \A j \in (i + 1)..Len(doc_small_keys) : doc_small_keys[j] # k
    IN [k \in ks |-> IF k \in DOMAIN doc_big_storage THEN Big ELSE Small(LastPos(k) - 1)]

\* the term map of load as it would be with id = position (from 0)
LoadTermsFromZero(doc_terms) ==
    LET names == {doc_terms[i] : i \in 1..Len(doc_terms)}
        LastPos(s) == CHOOSE i \in 1..Len(doc_terms) :
                         /\ doc_terms[i] = s
                         /\ \A j \in (i + 1)..Len(doc_terms) : doc_terms[j] # s
    IN [s \in names |-> (LastPos(s) - 1) % 256]

\* terms.into_iter().enumerate().map(|(v, k)| (k, (v + 1) as u8)).collect():
\* a HashMap, so a string listed twice keeps its last position
LoadTerms(doc_terms) ==
    LET names == {doc_terms[i] : i \in 1..Len(doc_terms)}
        LastPos(s) == CHOOSE i \in 1..Len(doc_terms) :
                         /\ doc_terms[i] = s
                         /\ \A j \in (i + 1)..Len(doc_terms) : doc_terms[j] # s
    IN [s \in names |-> LastPos(s) % 256]

\* DoubleMap::try_from(HashMap): Err when two strings share an id
DoubleMapTryFrom(m) ==
    IF \E a, b \in DOMAIN m : a # b /\ m[a] = m[b]
    THEN [ok |-> FALSE, val |-> DoubleMapNew]
    ELSE [ok |-> TRUE,
          val |-> [forward |-> m,
                   backward |-> [v \in {m[a] : a \in DOMAIN m} |->
                                    CHOOSE a \in DOMAIN m : m[a] = v]]]

\* ok is FALSE where the unwrap() of the DoubleMap panics
from_existing_data(doc_terms, doc_small_keys, doc_small_storage, doc_big_storage) ==
    LET t == DoubleMapTryFrom(doc_terms) IN
    [ok |-> t.ok,
     db |-> [terms |-> t.val,
             index |-> build_index(doc_small_keys, doc_big_storage),
             holes |-> <<>>,
             small_keys |-> doc_small_keys,
             small_storage |-> doc_small_storage,
             big_storage |-> doc_big_storage]]

load(doc) ==
    from_existing_data(LoadTerms(doc.terms), doc.small_keys, doc.small_storage,
                       doc.big_storage)

(***************************************************************************)
(* The engine as a state machine: one action per public operation.         *)
(***************************************************************************)
DB ==
    [terms |-> terms, index |-> index, holes |-> holes, small_keys |-> small_keys,
     small_storage |-> small_storage, big_storage |-> big_storage]

DBNext ==
    [terms |-> terms', index |-> index', holes |-> holes', small_keys |-> small_keys',
     small_storage |-> small_storage', big_storage |-> big_storage']

SetDB(db) ==
    /\ terms' = db.terms
    /\ index' = db.index
    /\ holes' = db.holes
    /\ small_keys' = db.small_keys
    /\ small_storage' = db.small_storage
    /\ big_storage' = db.big_storage

NoCall == [op |-> "none", key |-> 0, term |-> 0, ok |-> TRUE, val |-> 0]

\* the strings whose first use may come in either order, so that the number
\* of a string is not its id
Swappable == {1, 2}

\* the strings a caller passes when n terms are interned and the pool has
\* `pool` strings: any interned string, a swappable string, or the
\* lowest-numbered string not yet seen (the other unseen strings are
\* interchangeable with it)
TermInputs(n, pool) ==
    {Str(i) : i \in {j \in 1..pool : j <= n + 1 \/ j \in Swappable}}

\* the distinct strings passed to add_term, in the order of their first use
SeenAfter(term) ==
    IF \E i \in 1..Len(seen) : seen[i] = term THEN seen ELSE Append(seen, term)

EngineInit ==
    /\ terms = DatabaseDefault.terms
    /\ index = DatabaseDefault.index
    /\ holes = DatabaseDefault.holes
    /\ small_keys = DatabaseDefault.small_keys
    /\ small_storage = DatabaseDefault.small_storage
    /\ big_storage = DatabaseDefault.big_storage
    /\ last = NoCall
    /\ seen = <<>>
    /\ given = [k \in Keys |-> {}]
    /\ calls = 0

NoSetCall == [op |-> "none", item |-> 0, ok |-> TRUE, val |-> FALSE, had |-> FALSE, n |-> 0]

SmallsetInit ==
    /\ sset = new_empty
    /\ ss_live = {}
    /\ ss_removes = 0
    /\ ss_last = NoSetCall

\* the tasks that handle requests
Procs == {1, 2}

NoRequest ==
    [pc |-> "idle", kind |-> "none", key |-> 0, term |-> 0, todo |-> <<>>,
     loc |-> [some |-> FALSE, val |-> Big], res |-> None]

LockInit ==
    /\ lock = [writer |-> 0, readers |-> {}]
    /\ req = [p \in Procs |-> NoRequest]
    /\ committed = DatabaseDefault

\* a byte string that rmp_serde cannot decode as a SerializationScheme: a
\* truncated file, another schema, sets of another SMALLSIZE, a key 0
Undecodable ==
    [decodes |-> FALSE, terms |-> <<>>, small_keys |-> <<>>, small_storage |-> <<>>,
     big_storage |-> EmptyMap]

LoadInit ==
    /\ load_doc = Undecodable
    /\ loaded = "none"

Absent == [exists |-> FALSE, gen |-> 0, len |-> 0, total |-> 0]

Idle ==
    [pc |-> "idle", gen |-> 0, total |-> 0, handed |-> 0, buffered |-> 0,
     result |-> "none", failed |-> FALSE]

SaveInit ==
    /\ fpath = Absent
    /\ ftemp = Absent
    /\ fprev = Absent
    /\ save = Idle

CreateRecord(key) ==
    LET r == create_record(DB, key) IN
    /\ calls < MaxCalls
    /\ calls' = calls + 1
    /\ SetDB(r.db)
    /\ last' = [op |-> "create_record", key |-> key, term |-> 0, ok |-> TRUE, val |-> r.val]
    /\ UNCHANGED <<seen, given, smallset_vars, save_vars, lock_vars, load_vars>>

AddTerm(term) ==
    LET r == add_term(DB, term) IN
    /\ calls < MaxCalls
    /\ calls' = calls + 1
    /\ SetDB(r.db)
    /\ last' = [op |-> "add_term", key |-> 0, term |-> term, ok |-> r.ok, val |-> r.val]
    /\ seen' = SeenAfter(term)
    /\ UNCHANGED <<given, smallset_vars, save_vars, lock_vars, load_vars>>

SetFlag(key, term) ==
    LET r == set_flag(DB, key, term) IN
    /\ calls < MaxCalls
    /\ calls' = calls + 1
    /\ SetDB(r.db)
    /\ last' = [op |-> "set_flag", key |-> key, term |-> term, ok |-> r.ok, val |-> r.val]
    /\ seen' = SeenAfter(term)
    /\ given' = IF r.ok THEN [given EXCEPT ![key] = @ \cup {term}] ELSE given
    /\ UNCHANGED <<smallset_vars, save_vars, lock_vars, load_vars>>

Next ==
    \/ \E key \in Keys : CreateRecord(key)
    \/ \E term \in TermInputs(Len(seen), NumTerms) : AddTerm(term)
    \/ \E key \in Keys, term \in TermInputs(Len(seen), NumTerms) : SetFlag(key, term)

vars == <<engine_vars, record_vars, smallset_vars, save_vars, lock_vars, load_vars>>

Init == EngineInit /\ SmallsetInit /\ SaveInit /\ LockInit /\ LoadInit

Spec == Init /\ [][Next]_vars

(***************************************************************************)
(* The same operations without the record of the last call, which lets the *)
(* runs be one call longer: the specification of the properties that read  *)
(* the engine state alone.                                                 *)
(***************************************************************************)
DeepCreateRecord(key) ==
    /\ calls < MaxDeep
    /\ calls' = calls + 1
    /\ SetDB(create_record(DB, key).db)
    /\ UNCHANGED <<last, seen, given, smallset_vars, save_vars, lock_vars, load_vars>>

DeepAddTerm(term) ==
    /\ calls < MaxDeep
    /\ calls' = calls + 1
    /\ SetDB(add_term(DB, term).db)
    /\ seen' = SeenAfter(term)
    /\ UNCHANGED <<last, given, smallset_vars, save_vars, lock_vars, load_vars>>

DeepSetFlag(key, term) ==
    LET r == set_flag(DB, key, term) IN
    /\ calls < MaxDeep
    /\ calls' = calls + 1
    /\ SetDB(r.db)
    /\ seen' = SeenAfter(term)
    /\ given' = IF r.ok THEN [given EXCEPT ![key] = @ \cup {term}] ELSE given
    /\ UNCHANGED <<last, smallset_vars, save_vars, lock_vars, load_vars>>

DeepNext ==
    \/ \E key \in Keys : DeepCreateRecord(key)
    \/ \E term \in TermInputs(Len(seen), NumTerms) : DeepAddTerm(term)
    \/ \E key \in Keys, term \in TermInputs(Len(seen), NumTerms) : DeepSetFlag(key, term)

SpecDeep == Init /\ [][DeepNext]_vars

(***************************************************************************)
(* The states the vertical queries are tried on: set_flag alone, on two    *)
(* keys, with SMALLSIZE + 1 strings, so that one key is migrated and the   *)
(* other holds some of the terms.                                          *)
(***************************************************************************)
QueryKeys == {k \in Keys : k <= 2}

QuerySetFlag(key, term) ==
    LET r == set_flag(DB, key, term) IN
    /\ calls < MaxDeep
    /\ calls' = calls + 1
    /\ SetDB(r.db)
    /\ seen' = SeenAfter(term)
    /\ given' = IF r.ok THEN [given EXCEPT ![key] = @ \cup {term}] ELSE given
    /\ UNCHANGED <<last, smallset_vars, save_vars, lock_vars, load_vars>>

QueryNext ==
    \E key \in QueryKeys, term \in TermInputs(Len(seen), SMALLSIZE + 1) :
        QuerySetFlag(key, term)

SpecQuery == Init /\ [][QueryNext]_vars

(***************************************************************************)
(* The free-slot list: create_record, add_term and set_flag on one key     *)
(* more than the other specifications have and with SMALLSIZE + 1 strings, *)
(* in runs long enough to migrate two keys and to create a key after them  *)
(* in a slot they left.                                                    *)
(***************************************************************************)
HoleKeys == 1..(NumKeys + 1)

\* the keys a caller passes: a key of the Index or the lowest key that is
\* not in it (the Database compares keys for equality only, so the other
\* unknown keys are interchangeable with it)
HoleKeyInputs ==
    {k \in HoleKeys : k \in DOMAIN index \/ \A j \in 1..(k - 1) : j \in DOMAIN index}

\* two migrations of SMALLSIZE + 1 set_flag calls each, and one more call
MaxHoleCalls == 2 * SMALLSIZE + 3

HolesCreateRecord(key) ==
    /\ calls < MaxHoleCalls
    /\ calls' = calls + 1
    /\ SetDB(create_record(DB, key).db)
    /\ UNCHANGED <<last, seen, given, smallset_vars, save_vars, lock_vars, load_vars>>

HolesAddTerm(term) ==
    /\ calls < MaxHoleCalls
    /\ calls' = calls + 1
    /\ SetDB(add_term(DB, term).db)
    /\ seen' = SeenAfter(term)
    /\ UNCHANGED <<last, given, smallset_vars, save_vars, lock_vars, load_vars>>

HolesSetFlag(key, term) ==
    /\ calls < MaxHoleCalls
    /\ calls' = calls + 1
    /\ SetDB(set_flag(DB, key, term).db)
    /\ seen' = SeenAfter(term)
    /\ UNCHANGED <<last, given, smallset_vars, save_vars, lock_vars, load_vars>>

HolesNext ==
    \/ \E key \in HoleKeyInputs : HolesCreateRecord(key)
    \/ \E term \in TermInputs(Len(seen), SMALLSIZE + 1) : HolesAddTerm(term)
    \/ \E key \in HoleKeyInputs, term \in TermInputs(Len(seen), SMALLSIZE + 1) :
          HolesSetFlag(key, term)

SpecHoles == Init /\ [][HolesNext]_vars

(***************************************************************************)
(* Database::load on any document: the decoder either fails or yields a    *)
(* SerializationScheme, whose four fields load passes to                   *)
(* from_existing_data as they are.                                         *)
(***************************************************************************)
\* the Smallset arrays of a document: an empty one and one that holds id 1
DocSets == {new_empty, [new_empty EXCEPT ![hash(1)] = 1]}

\* the term lists of a document: up to two strings, and a list of 257
\* strings, the shortest whose positions + 1 repeat as u8
DocTermLists == {<<>>, <<Str(1)>>, <<Str(1), Str(2)>>, [i \in 1..257 |-> Str(i)]}

DocKeyLists == UNION {[1..n -> Keys] : n \in 0..MaxDocLen}

DocSetLists == UNION {[1..n -> DocSets] : n \in 0..MaxDocLen}

DocBigStorages == UNION {[ks -> {{}, {1}}] : ks \in SUBSET Keys}

\* the values of SerializationScheme that a byte string may decode to
Decodable ==
    [decodes : {TRUE}, terms : DocTermLists, small_keys : DocKeyLists,
     small_storage : DocSetLists, big_storage : DocBigStorages]

LoadDocInit ==
    /\ EngineInit /\ SmallsetInit /\ SaveInit /\ LockInit
    /\ load_doc \in Decodable \cup {Undecodable}
    /\ loaded = "none"

\* rmp_serde::decode::from_read(buffer)? returns the decode error
DecodeFails ==
    /\ loaded = "none"
    /\ ~load_doc.decodes
    /\ loaded' = "err"
    /\ UNCHANGED <<engine_vars, record_vars, smallset_vars, save_vars, lock_vars, load_doc>>

\* the rest of load: Ok(from_existing_data(..)), or the panic of its unwrap
LoadDecoded ==
    LET r == load(load_doc) IN
    /\ loaded = "none"
    /\ load_doc.decodes
    /\ IF r.ok
       THEN SetDB(r.db) /\ loaded' = "ok"
       ELSE UNCHANGED engine_vars /\ loaded' = "panic"
    /\ UNCHANGED <<record_vars, smallset_vars, save_vars, lock_vars, load_doc>>

LoadNext == DecodeFails \/ LoadDecoded

SpecLoad == LoadDocInit /\ [][LoadNext]_vars

(***************************************************************************)
(* The term table up to its capacity: add_term alone, with the strings     *)
(* Str(1) .. Str(MaxTerms + 1).                                            *)
(***************************************************************************)
\* the strings passed when n strings have been seen: a swappable string, a
\* string seen long ago, the string seen last, or the lowest unseen string
InternInputs(n) ==
    {Str(i) : i \in {j \in Swappable \cup {n \div 2, n, n + 1} :
                        j >= 1 /\ j <= MaxTerms + 1}}

Intern(term) ==
    LET r == add_term(DB, term) IN
    /\ SetDB(r.db)
    /\ last' = [op |-> "add_term", key |-> 0, term |-> term, ok |-> r.ok, val |-> r.val]
    /\ seen' = SeenAfter(term)
    /\ UNCHANGED <<given, calls, smallset_vars, save_vars, lock_vars, load_vars>>

TermsNext == \E term \in InternInputs(Len(seen)) : Intern(term)

SpecTerms == Init /\ [][TermsNext]_vars

(***************************************************************************)
(* The engine at the capacity of the term table: the strings are interned  *)
(* as above, and set_flag is called on one key once at most one id is      *)
(* left.                                                                   *)
(***************************************************************************)
\* the key that is given terms at the capacity of the term table
CapKeys == {k \in Keys : k = 1}

CapSetFlag(key, term) ==
    LET r == set_flag(DB, key, term) IN
    /\ Len(seen) >= MaxTerms - 1
    /\ SetDB(r.db)
    /\ last' = [op |-> "set_flag", key |-> key, term |-> term, ok |-> r.ok, val |-> r.val]
    /\ seen' = SeenAfter(term)
    /\ given' = IF r.ok THEN [given EXCEPT ![key] = @ \cup {term}] ELSE given
    /\ UNCHANGED <<calls, smallset_vars, save_vars, lock_vars, load_vars>>

CapacityNext ==
    \/ \E term \in InternInputs(Len(seen)) : Intern(term)
    \/ \E key \in CapKeys, term \in InternInputs(Len(seen)) : CapSetFlag(key, term)

SpecCapacity == Init /\ [][CapacityNext]_vars

(***************************************************************************)
(* One Smallset under insert and remove.                                   *)
(***************************************************************************)
\* SmallsetItem: any u8 but EMPTY_SLOT and TOMBSTONE
Items == (1..MaxItem) \cup {254}

SsInsert(item) ==
    LET r == insert(sset, item) IN
    /\ sset' = r.bs
    /\ ss_live' = IF item \in ss_live \/ Cardinality(ss_live) < SMALLSIZE
                  THEN ss_live \cup {item} ELSE ss_live
    /\ ss_last' = [op |-> "insert", item |-> item, ok |-> r.ok, val |-> r.val,
                   had |-> item \in ss_live, n |-> Cardinality(ss_live)]
    /\ UNCHANGED <<ss_removes, engine_vars, record_vars, save_vars, lock_vars, load_vars>>

SsRemove(item) ==
    LET r == remove(sset, item) IN
    /\ ss_removes < MaxRemoves
    /\ ss_removes' = ss_removes + 1
    /\ sset' = r.bs
    /\ ss_live' = ss_live \ {item}
    /\ ss_last' = [op |-> "remove", item |-> item, ok |-> TRUE, val |-> r.val,
                   had |-> item \in ss_live, n |-> Cardinality(ss_live)]
    /\ UNCHANGED <<engine_vars, record_vars, save_vars, lock_vars, load_vars>>

SmallsetNext ==
    \/ \E item \in Items : SsInsert(item)
    \/ \E item \in Items : SsRemove(item)

SpecSmallset == Init /\ [][SmallsetNext]_vars

Range(s) == {s[i] : i \in 1..Len(s)}

NoDuplicates(s) == \A i, j \in 1..Len(s) : i # j => s[i] # s[j]

\* the strings interned in the current state
Interned == DOMAIN terms.forward

(***************************************************************************)
(* two_phase_save, step by step: File::create of the temp file, the writes *)
(* of dump through the BufWriter, the drop of the BufWriter at the end of  *)
(* write_to_file, the rename. Any file operation may fail, and the process *)
(* may stop between any two steps.                                         *)
(***************************************************************************)
Complete(f) == f.exists /\ f.len = f.total

Finish(result) == save' = [save EXCEPT !.pc = "idle", !.result = result]

\* an operation on the temp file fails and its error is returned through `?`
WriteFails == save' = [save EXCEPT !.pc = "idle", !.result = "err", !.failed = TRUE]

\* the temp file once the BufWriter has written out what it holds
Flushed == [ftemp EXCEPT !.len = @ + save.buffered]

StartSave(total) ==
    /\ save.pc = "idle"
    /\ save.gen < MaxSaves
    /\ save' = [pc |-> "create", gen |-> save.gen + 1, total |-> total, handed |-> 0,
                buffered |-> 0, result |-> "none", failed |-> FALSE]
    /\ fprev' = fpath
    /\ UNCHANGED <<fpath, ftemp>>
    /\ UNCHANGED <<engine_vars, record_vars, smallset_vars, lock_vars, load_vars>>

\* std::fs::File::create(path)?
CreateTemp ==
    /\ save.pc = "create"
    /\ \/ /\ ftemp' = [exists |-> TRUE, gen |-> save.gen, len |-> 0, total |-> save.total]
          /\ save' = [save EXCEPT !.pc = "dump"]
       \/ /\ WriteFails
          /\ UNCHANGED ftemp
    /\ UNCHANGED <<fpath, fprev>>
    /\ UNCHANGED <<engine_vars, record_vars, smallset_vars, lock_vars, load_vars>>

\* state.dump(&mut temp_file)?: one more unit handed to the BufWriter, which
\* first writes out what it holds when it is full
DumpUnit ==
    /\ save.pc = "dump"
    /\ save.handed < save.total
    /\ IF save.buffered < BufCap
       THEN /\ save' = [save EXCEPT !.handed = @ + 1, !.buffered = @ + 1]
            /\ UNCHANGED ftemp
       ELSE \/ /\ ftemp' = Flushed
               /\ save' = [save EXCEPT !.handed = @ + 1, !.buffered = 1]
            \* the write fails: dump returns Err, the BufWriter is dropped
            \* (its flush may or may not get through) and the save returns Err
            \/ /\ ftemp' \in {ftemp, Flushed}
               /\ WriteFails
    /\ UNCHANGED <<fpath, fprev>>
    /\ UNCHANGED <<engine_vars, record_vars, smallset_vars, lock_vars, load_vars>>

\* Ok(()) of write_to_file: the BufWriter is dropped, and the result of the
\* flush that the drop makes is ignored (a dump has at least one unit, so
\* the BufWriter holds bytes here)
DropWriter ==
    /\ save.pc = "dump"
    /\ save.handed = save.total
    /\ \/ /\ ftemp' = Flushed
          /\ save' = [save EXCEPT !.pc = "rename", !.buffered = 0]
       \/ /\ ftemp' = ftemp
          /\ save' = [save EXCEPT !.pc = "rename", !.buffered = 0, !.failed = TRUE]
    /\ UNCHANGED <<fpath, fprev>>
    /\ UNCHANGED <<engine_vars, record_vars, smallset_vars, lock_vars, load_vars>>

\* std::fs::rename(temp_path, final_path)?
Rename ==
    /\ save.pc = "rename"
    /\ \/ /\ fpath' = ftemp
          /\ ftemp' = Absent
          /\ Finish("ok")
       \/ /\ Finish("err")
          /\ UNCHANGED <<fpath, ftemp>>
    /\ UNCHANGED fprev
    /\ UNCHANGED <<engine_vars, record_vars, smallset_vars, lock_vars, load_vars>>

\* the process stops: what the BufWriter holds is lost, the files stay
Crash ==
    /\ save.pc # "idle"
    /\ Finish("crashed")
    /\ UNCHANGED <<fpath, ftemp, fprev>>
    /\ UNCHANGED <<engine_vars, record_vars, smallset_vars, lock_vars, load_vars>>

SaveNext ==
    \/ \E total \in 1..MaxDumpUnits : StartSave(total)
    \/ CreateTemp
    \/ DumpUnit
    \/ DropWriter
    \/ Rename
    \/ Crash

SpecSave == Init /\ [][SaveNext]_vars

(***************************************************************************)
(* The request layer: every handler takes the RwLock around the Database   *)
(* for the whole engine call, db.write() for create_record and set_flag,   *)
(* db.read() for the queries. A task holding the write lock runs its       *)
(* operation statement by statement; a task holding the read lock reads    *)
(* the Index, then the storage.                                            *)
(***************************************************************************)
\* RwLock::write is granted when no task holds the lock
CanWrite == lock.writer = 0 /\ lock.readers = {}

\* RwLock::read as it would be if it were granted while a writer holds the lock
CanReadAlways == TRUE

\* RwLock::read is granted when no task holds the write lock
CanRead == lock.writer = 0

\* add_term_to_key: db.write().await, then db.set_flag(key, &term)
WriteAcquireSetFlag(p, key, term) ==
    /\ req[p].pc = "idle"
    /\ CanWrite
    /\ calls < MaxCalls
    /\ calls' = calls + 1
    /\ lock' = [lock EXCEPT !.writer = p]
    /\ req' = [req EXCEPT ![p] = [NoRequest EXCEPT !.pc = "writing", !.kind = "set_flag",
                                    !.key = key, !.term = term,
                                    !.todo = set_flag_steps(DB, key, term)]]
    /\ seen' = SeenAfter(term)
    /\ UNCHANGED <<engine_vars, last, given, committed, smallset_vars, save_vars, load_vars>>

\* create_item: db.write().await, then db.create_record(key)
WriteAcquireCreate(p, key) ==
    /\ req[p].pc = "idle"
    /\ CanWrite
    /\ calls < MaxCalls
    /\ calls' = calls + 1
    /\ lock' = [lock EXCEPT !.writer = p]
    /\ req' = [req EXCEPT ![p] = [NoRequest EXCEPT !.pc = "writing",
                                    !.kind = "create_record", !.key = key,
                                    !.todo = create_record_steps(DB, key)]]
    /\ UNCHANGED <<engine_vars, last, seen, given, committed, smallset_vars, save_vars, load_vars>>

\* the next statement of the running operation
WriteStep(p) ==
    /\ req[p].pc = "writing"
    /\ req[p].todo # <<>>
    /\ SetDB(Head(req[p].todo))
    /\ req' = [req EXCEPT ![p].todo = Tail(@)]
    /\ UNCHANGED <<lock, committed, record_vars, smallset_vars, save_vars, load_vars>>

\* the handler returns and its write guard is dropped
WriteRelease(p) ==
    /\ req[p].pc = "writing"
    /\ req[p].todo = <<>>
    /\ lock' = [lock EXCEPT !.writer = 0]
    /\ committed' = IF req[p].kind = "set_flag"
                    THEN set_flag(committed, req[p].key, req[p].term).db
                    ELSE create_record(committed, req[p].key).db
    /\ req' = [req EXCEPT ![p] = NoRequest]
    /\ UNCHANGED <<engine_vars, record_vars, smallset_vars, save_vars, load_vars>>

\* make_horizontal_query: db.read().await
ReadAcquire(p, key) ==
    /\ req[p].pc = "idle"
    /\ CanRead
    /\ lock' = [lock EXCEPT !.readers = @ \cup {p}]
    /\ req' = [req EXCEPT ![p] = [NoRequest EXCEPT !.pc = "locked",
                                    !.kind = "horizontal_query", !.key = key]]
    /\ UNCHANGED <<engine_vars, record_vars, committed, smallset_vars, save_vars, load_vars>>

\* let location = self.index.get(key)?
ReadIndex(p) ==
    /\ req[p].pc = "locked"
    /\ req' = [req EXCEPT ![p].pc = "located",
                          ![p].loc = IF req[p].key \in DOMAIN index
                                     THEN [some |-> TRUE, val |-> index[req[p].key]]
                                     ELSE [some |-> FALSE, val |-> Big]]
    /\ UNCHANGED <<engine_vars, record_vars, lock, committed, smallset_vars, save_vars, load_vars>>

\* the match on the location: the inline Smallset or the big-storage set
ReadStorage(p) ==
    LET key == req[p].key
        loc == req[p].loc
        res == IF ~loc.some THEN None
               ELSE IF loc.val.tag = "Small"
               THEN LET v == get_view(DB, loc.val.off) IN
                    IF ~v.some THEN None ELSE Some(Explained(DB, iter(v.val)))
               ELSE IF key \notin DOMAIN big_storage THEN None
               ELSE Some(Explained(DB, big_storage[key]))
    IN /\ req[p].pc = "located"
       /\ req' = [req EXCEPT ![p].pc = "read", ![p].res = res]
       /\ UNCHANGED <<engine_vars, record_vars, lock, committed, smallset_vars, save_vars,
                      load_vars>>

\* the handler returns and its read guard is dropped
ReadRelease(p) ==
    /\ req[p].pc = "read"
    /\ lock' = [lock EXCEPT !.readers = @ \ {p}]
    /\ req' = [req EXCEPT ![p] = NoRequest]
    /\ UNCHANGED <<engine_vars, record_vars, committed, smallset_vars, save_vars, load_vars>>

LockNext ==
    \/ \E p \in Procs, key \in Keys, term \in TermInputs(Len(seen), NumTerms) :
          WriteAcquireSetFlag(p, key, term)
    \/ \E p \in Procs, key \in Keys : WriteAcquireCreate(p, key)
    \/ \E p \in Procs : WriteStep(p)
    \/ \E p \in Procs : WriteRelease(p)
    \/ \E p \in Procs, key \in Keys : ReadAcquire(p, key)
    \/ \E p \in Procs : ReadIndex(p)
    \/ \E p \in Procs : ReadStorage(p)
    \/ \E p \in Procs : ReadRelease(p)

SpecLock == Init /\ [][LockNext]_vars

(***************************************************************************)
(* C1: once set_flag(k, t) has returned Ok, horizontal_query(k) is Some set *)
(* that contains t, and a set_flag(k, t) made right after it returns       *)
(* Ok(false) and leaves horizontal_query(k) as it was.                     *)
(***************************************************************************)
C1_SetFlagThenQuery ==
    (last.op = "set_flag" /\ last.ok) =>
        LET q == horizontal_query(DB, last.key)
            again == set_flag(DB, last.key, last.term)
        IN /\ q.some
           /\ last.term \in q.val
           /\ again.ok
           /\ again.val = FALSE
           /\ horizontal_query(again.db, last.key) = q

\* set_flag has returned Ok(true) for a key that the call migrated
C1_Witness ==
    /\ last.op = "set_flag" /\ last.ok /\ last.val = TRUE
    /\ index[last.key].tag = "Big"
    /\ Cardinality(big_storage[last.key]) = SMALLSIZE + 1

(***************************************************************************)
(* C2: a key given SMALLSIZE + 1 distinct terms through set_flag has Index *)
(* entry Big and horizontal_query returns exactly those terms; a further   *)
(* set_flag with another distinct term returns Ok(true) and adds the term. *)
(***************************************************************************)
C2_MigrationLosesNothing ==
    \A k \in Keys :
        /\ Cardinality(given[k]) = SMALLSIZE + 1 =>
              /\ k \in DOMAIN index
              /\ index[k] = Big
              /\ horizontal_query(DB, k) = Some(given[k])
              /\ \A t \in TermInputs(Len(seen), NumTerms) \ given[k] :
                    LET r == set_flag(DB, k, t) IN
                    /\ r.ok
                    /\ r.val = TRUE
                    /\ horizontal_query(r.db, k) = Some(given[k] \cup {t})
        /\ (/\ Cardinality(given[k]) = SMALLSIZE + 2
            /\ last.op = "set_flag"
            /\ last.key = k) =>
              /\ last.ok
              /\ index[k] = Big
              /\ horizontal_query(DB, k) = Some(given[k])

\* a migrated key has received its (SMALLSIZE + 2)-th distinct term
C2_Witness ==
    \E k \in Keys :
        /\ Cardinality(given[k]) = SMALLSIZE + 2
        /\ last = [op |-> "set_flag", key |-> k, term |-> last.term, ok |-> TRUE,
                   val |-> TRUE]
        /\ index[k] = Big

(***************************************************************************)
(* C3: every key of the Index has backing storage in exactly one tier: a   *)
(* Small(i) key is bound to inline slot i and has no big-storage entry, a  *)
(* Big key has a big-storage entry and no inline slot; no bound slot and   *)
(* no big-storage entry belongs to a key missing from the Index.           *)
(***************************************************************************)
C3_ExactlyOneTier ==
    /\ \A k \in DOMAIN index :
          IF index[k].tag = "Small"
          THEN /\ get_view(DB, index[k].off).some
               /\ index[k].off + 1 <= Len(small_keys)
               /\ small_keys[index[k].off + 1] = k
               /\ k \notin DOMAIN big_storage
          ELSE /\ k \in DOMAIN big_storage
               /\ \A i \in 1..Len(small_keys) : small_keys[i] # k
    /\ \A i \in 1..Len(small_keys) :
          small_keys[i] # NoKey => small_keys[i] \in DOMAIN index
    /\ DOMAIN big_storage \subseteq DOMAIN index

\* one key is inline, another was migrated and left a vacated slot
C3_Witness ==
    /\ \E k \in DOMAIN index : index[k].tag = "Small"
    /\ \E k \in DOMAIN index : index[k].tag = "Big"
    /\ \E i \in 1..Len(small_keys) : small_keys[i] = NoKey

(***************************************************************************)
(* C4: load(dump(state)) succeeds and answers horizontal_query for every   *)
(* key (None for unknown keys) and vertical_query for every interned term  *)
(* as the state itself does (the same set of keys).                        *)
(***************************************************************************)
C4_RoundTrip ==
    \A l \in {load(dump(DB))} :
        /\ l.ok
        /\ \A k \in Keys : horizontal_query(l.db, k) = horizontal_query(DB, k)
        /\ \A t \in Interned :
             \A o1 \in BigOrders(DB), o2 \in BigOrders(l.db) :
                LET before == vertical_query(DB, [type |-> "Simple", term |-> t], o1)
                    after == vertical_query(l.db, [type |-> "Simple", term |-> t], o2)
                IN /\ after.ok = before.ok
                   /\ Range(after.val) = Range(before.val)

\* the dumped state has a migrated key, a vacated slot in front of a bound
\* one, two terms interned in the other order than their numbers and a key
\* that is unknown
C4_Witness ==
    /\ \E k \in DOMAIN index : index[k].tag = "Big"
    /\ Len(small_keys) = 2 /\ small_keys[1] = NoKey /\ small_keys[2] # NoKey
    /\ iter(small_storage[2]) # {}
    /\ Str(2) \in Interned /\ terms.forward[Str(2)] = 1
    /\ load(dump(DB)).db.index[small_keys[2]] = Small(0)

(***************************************************************************)
(* C8: vertical_query(Simple{term}) for an interned term returns exactly   *)
(* the known keys whose horizontal_query contains the term, each once.     *)
(***************************************************************************)
C8_SimpleVerticalQuery ==
    \A t \in Interned :
        \A ord \in BigOrders(DB) :
            LET r == vertical_query(DB, [type |-> "Simple", term |-> t], ord) IN
            /\ r.ok
            /\ NoDuplicates(r.val)
            /\ Range(r.val) = {k \in DOMAIN index : t \in horizontal_query(DB, k).val}

\* a term is held by an inline key and by a migrated key, while a vacated
\* slot still stores that term's id
C8_Witness ==
    \E t \in Interned :
        /\ Len(vertical_query(DB, [type |-> "Simple", term |-> t],
                              CHOOSE o \in BigOrders(DB) : TRUE).val) = 2
        /\ \E k \in DOMAIN index : index[k].tag = "Big"
        /\ \E i \in 1..Len(small_keys) :
              small_keys[i] = NoKey /\ contains(small_storage[i], terms.forward[t])

(***************************************************************************)
(* C9: vertical_query(KofN{terms, bound}) with all terms interned: with    *)
(* bound = 0 the result contains every known key, for every terms list     *)
(* including the empty one; with bound greater than the number of terms    *)
(* the result is empty.                                                    *)
(***************************************************************************)
QueryLists ==
    UNION {[1..n -> Interned] : n \in 0..MaxQueryTerms}

C9_KofNBounds ==
    \A ts \in QueryLists :
        \A ord \in BigOrders(DB) :
            /\ LET r == vertical_query(DB, [type |-> "KofN", terms |-> ts, bound |-> 0], ord)
               IN r.ok /\ Range(r.val) = DOMAIN index
            /\ \A b \in (Len(ts) + 1)..(MaxQueryTerms + 1) :
                 LET r == vertical_query(DB, [type |-> "KofN", terms |-> ts, bound |-> b],
                                         ord)
                 IN r.ok /\ r.val = <<>>

(***************************************************************************)
(* C10: create_record(k) for a key already in the Index returns false and  *)
(* changes nothing of the engine; for an absent key it returns true and    *)
(* the key then has an empty tag set.                                      *)
(***************************************************************************)
C10_CreateRecordIdempotent ==
    [][(calls' # calls /\ last'.op = "create_record") =>
         IF last'.key \in DOMAIN index
         THEN /\ last'.val = FALSE
              /\ UNCHANGED engine_vars
         ELSE /\ last'.val = TRUE
              /\ horizontal_query(DBNext, last'.key) = Some({})
              /\ index'[last'.key].tag = "Small"]_vars

\* create_record has returned false for a migrated key, and has returned
\* true for a key it placed in a vacated slot
C10_Witness ==
    /\ last.op = "create_record" /\ last.val = FALSE
    /\ index[last.key].tag = "Big"

C10_WitnessReusedSlot ==
    /\ last.op = "create_record" /\ last.val = TRUE
    /\ holes = <<>>
    /\ \E k \in DOMAIN index : index[k].tag = "Big"
    /\ Len(small_keys) = 1

(***************************************************************************)
(* C6: the N-th distinct string passed to add_term receives id N, a        *)
(* repeated string returns the id it first received, and the 254th         *)
(* distinct string fails while the 253 interned ones keep their ids and    *)
(* still resolve.                                                          *)
(***************************************************************************)
\* the position of a string in the order of first use
FirstSeenAt(term) == CHOOSE i \in 1..Len(seen) : seen[i] = term

C6_InterningMonotonic ==
    /\ \A i \in 1..Len(seen) :
          IF i <= MaxTerms
          THEN /\ get_term_id(DB, seen[i]) = [some |-> TRUE, val |-> i]
               /\ explain_term_id(DB, i) = [some |-> TRUE, val |-> seen[i]]
          ELSE ~get_term_id(DB, seen[i]).some
    /\ DoubleMapLen(terms) = Min(Len(seen), MaxTerms)
    /\ last.op = "add_term" =>
          IF FirstSeenAt(last.term) <= MaxTerms
          THEN last.ok /\ last.val = FirstSeenAt(last.term)
          ELSE ~last.ok

\* the 254th distinct string was refused with 253 terms interned
C6_Witness ==
    /\ last.op = "add_term" /\ ~last.ok
    /\ Len(seen) = MaxTerms + 1
    /\ DoubleMapLen(terms) = MaxTerms
    /\ terms.forward[Str(1)] = 2

(***************************************************************************)
(* C7: from an empty Smallset, every insert of a new value while fewer     *)
(* than SMALLSIZE values are stored returns Ok(true) and every inserted    *)
(* value is contained; the first remove, of any one of them, returns true, *)
(* makes contains false for it, leaves the others contained, and size() is *)
(* one less.                                                               *)
(***************************************************************************)
C7_SmallsetRoundTrip ==
    /\ ss_removes = 0 =>
          /\ \A v \in ss_live : contains(sset, v)
          /\ size(sset) = Cardinality(ss_live)
          /\ (ss_last.op = "insert" /\ ~ss_last.had /\ ss_last.n < SMALLSIZE) =>
                (ss_last.ok /\ ss_last.val = TRUE)
    /\ (ss_removes = 1 /\ ss_last.op = "remove" /\ ss_last.had) =>
          /\ ss_last.val = TRUE
          /\ ~contains(sset, ss_last.item)
          /\ \A v \in ss_live : contains(sset, v)
          /\ size(sset) = ss_last.n - 1

\* a full set of colliding values lost one of them, leaving a TOMBSTONE in
\* front of a value that is still found
C7_Witness ==
    /\ ss_removes = 1 /\ ss_last.op = "remove" /\ ss_last.had
    /\ ss_last.n = SMALLSIZE
    /\ \E i \in Slots : sset[i] = TOMBSTONE
    /\ \E v \in ss_live : sset[hash(v)] = TOMBSTONE

(***************************************************************************)
(* C11: set_flag(k, t) returns Err exactly when t is not interned and 253  *)
(* terms are; in every other case, also for a key whose Smallset is full,  *)
(* it returns Ok, after at most one eviction and one call to itself, and   *)
(* the term is then in the key's set.                                      *)
(***************************************************************************)
C11_NeverSetFull ==
    /\ \A k \in Keys, t \in InternInputs(Len(seen)) :
          LET r == set_flag(DB, k, t)
              table_full == t \notin Interned /\ DoubleMapLen(terms) = MaxTerms
          IN /\ r.ok = ~table_full
             /\ r.retries <= 1
             /\ r.retries = 1 =>
                   /\ k \in DOMAIN index /\ index[k].tag = "Small"
                   /\ size(get_view(DB, index[k].off).val) = SMALLSIZE
                   /\ r.db.index[k] = Big
             /\ r.ok => t \in horizontal_query(r.db, k).val
    /\ (last.op = "set_flag" /\ ~last.ok) =>
          /\ last.term \notin Interned
          /\ DoubleMapLen(terms) = MaxTerms

\* set_flag was refused for the 254th string on a key that an earlier
\* set_flag had migrated when its Smallset was full
C11_Witness ==
    /\ last.op = "set_flag" /\ ~last.ok
    /\ DoubleMapLen(terms) = MaxTerms
    /\ last.key \in DOMAIN index
    /\ index[last.key] = Big
    /\ Cardinality(big_storage[last.key]) = SMALLSIZE + 1

(***************************************************************************)
(* C5: during and after two_phase_save, also when the process stops at any *)
(* step, the file at the final path is the complete previous snapshot      *)
(* (absent if there was none) or the complete new snapshot, never a        *)
(* partial write.                                                          *)
(***************************************************************************)
C5_AtomicSave ==
    \/ ~fpath.exists /\ ~fprev.exists
    \/ Complete(fpath) /\ (fpath = fprev \/ fpath.gen = save.gen)

(***************************************************************************)
(* C12: once an operation on the temp file has failed (its creation, a     *)
(* write of buffered bytes or the final flush of the buffered bytes),      *)
(* two_phase_save does not go on to the rename, does not return Ok, and    *)
(* the file at the final path is the one that was there when the save      *)
(* started.                                                                *)
(***************************************************************************)
C12_WriteFailurePropagates ==
    save.failed =>
        /\ save.pc # "rename"
        /\ save.result # "ok"
        /\ fpath = fprev

(***************************************************************************)
(* C13: under the RwLock no task holds the read lock while another holds   *)
(* the write lock; whenever the write lock is free the Database is the one *)
(* that the completed requests give when run one at a time; so a reader    *)
(* finds its key in exactly one tier or unknown, and the set it returns is *)
(* horizontal_query of that Database.                                      *)
(***************************************************************************)
C13_ReadersSeeWholeOperations ==
    /\ lock.writer # 0 => lock.readers = {}
    /\ lock.writer = 0 => DB = committed
    /\ \A p \in lock.readers :
          LET k == req[p].key IN
          /\ k \in DOMAIN index =>
                IF index[k].tag = "Small"
                THEN /\ k \notin DOMAIN big_storage
                     /\ get_view(DB, index[k].off).some
                     /\ small_keys[index[k].off + 1] = k
                ELSE /\ k \in DOMAIN big_storage
                     /\ \A i \in 1..Len(small_keys) : small_keys[i] # k
          /\ req[p].pc = "read" => req[p].res = horizontal_query(committed, k)

\* two tasks hold the read lock, and one of them has read all the terms of
\* a key that a completed set_flag had migrated
C13_Witness ==
    /\ lock.readers = Procs
    /\ \E p \in Procs :
          /\ req[p].pc = "read"
          /\ req[p].res.some
          /\ Cardinality(req[p].res.val) = SMALLSIZE + 1
          /\ index[req[p].key] = Big

(***************************************************************************)
(* C14: after any sequence of insert and remove with at most SMALLSIZE     *)
(* values live at a time, contains(x) is true exactly for the values       *)
(* inserted and not removed since, and size() is their number.             *)
(***************************************************************************)
C14_SmallsetChurn ==
    /\ \A x \in Items : contains(sset, x) <=> x \in ss_live
    /\ size(sset) = Cardinality(ss_live)

(***************************************************************************)
(* C15: in every Smallset reachable by insert and remove, insert(id) of a  *)
(* stored id returns Ok(false) and leaves the array as it is, and no id    *)
(* is in two slots.                                                        *)
(***************************************************************************)
C15_InsertPresentIsNoOp ==
    /\ \A id \in iter(sset) : insert(sset, id) = [ok |-> TRUE, val |-> FALSE, bs |-> sset]
    /\ \A i, j \in Slots : (i # j /\ ~IsSentinel(sset[i])) => sset[i] # sset[j]
    /\ (ss_last.op = "insert" /\ ss_last.had) => (ss_last.ok /\ ss_last.val = FALSE)

(***************************************************************************)
(* C16: in every Smallset reachable by insert and remove, remove(id)       *)
(* returns true exactly when contains(id) is true, and contains(id) is     *)
(* false afterwards; when it returns false the array is unchanged; the     *)
(* slot of id becomes EMPTY_SLOT when the next probe slot is EMPTY_SLOT    *)
(* and TOMBSTONE otherwise.                                                *)
(***************************************************************************)
C16_RemoveExact ==
    \A id \in Items :
        LET r == remove(sset, id) IN
        /\ r.val = contains(sset, id)
        /\ r.val = FALSE => r.bs = sset
        /\ r.val = TRUE =>
              /\ ~contains(r.bs, id)
              /\ \E i \in Slots :
                    /\ sset[i] = id
                    /\ r.bs = [sset EXCEPT ![i] = IF sset[probe(i)] = EMPTY_SLOT
                                                  THEN EMPTY_SLOT ELSE TOMBSTONE]

(***************************************************************************)
(* C17: in every step a key of the Index stays in the Index, a key that is *)
(* Big stays Big, and a key that enters the Index enters it as Small.      *)
(***************************************************************************)
C17_OneWayTiers ==
    [][\A k \in Keys :
         /\ k \in DOMAIN index =>
               /\ k \in DOMAIN index'
               /\ index[k] = Big => index'[k] = Big
         /\ (k \notin DOMAIN index /\ k \in DOMAIN index') => index'[k].tag = "Small"]_vars

\* a migrated key has received a further term, and another key has been
\* created in the slot it left
C17_Witness ==
    /\ \E k \in DOMAIN index :
          index[k] = Big /\ Cardinality(big_storage[k]) = SMALLSIZE + 2
    /\ \E k \in DOMAIN index : index[k] = Small(0)
    /\ holes = <<>>
    /\ Len(small_keys) = 1

(***************************************************************************)
(* C18: when the free-slot list is not empty, create_record of an absent   *)
(* key returns true, takes the last slot of the list without growing the   *)
(* inline arrays, binds the key to it and clears its Smallset: the key's   *)
(* horizontal_query is the empty set, no Simple vertical query returns it, *)
(* and a set_flag of an absent key gives it that one term only.            *)
(***************************************************************************)
C18_SlotRecycling ==
    holes # <<>> =>
        \A k \in Keys \ DOMAIN index :
            LET r == create_record(DB, k)
                hole == holes[Len(holes)]
            IN /\ r.val = TRUE
               /\ r.db.index[k] = Small(hole)
               /\ r.db.holes = SubSeq(holes, 1, Len(holes) - 1)
               /\ Len(r.db.small_keys) = Len(small_keys)
               /\ Len(r.db.small_storage) = Len(small_storage)
               /\ r.db.small_keys[hole + 1] = k
               /\ r.db.small_storage[hole + 1] = new_empty
               /\ horizontal_query(r.db, k) = Some({})
               /\ \A t \in Interned, ord \in BigOrders(DB) :
                     k \notin Range(vertical_query(r.db, [type |-> "Simple", term |-> t],
                                                   ord).val)
               /\ \A t \in Interned :
                     horizontal_query(set_flag(DB, k, t).db, k) = Some({t})

\* a key has been created in the slot that a migrated key left (a key that
\* set_flag creates has a term)
C18_Witness ==
    /\ \E k \in DOMAIN index : index[k] = Big
    /\ holes = <<>>
    /\ Len(small_keys) = 1
    /\ small_keys[1] # NoKey
    /\ small_storage[1] = new_empty

(***************************************************************************)
(* C19: vertical_query(KofN{terms, bound}) with bound >= 1 and all terms   *)
(* interned returns, each once, exactly the known keys for which the       *)
(* number of list entries that are in the key's tag set reaches bound,     *)
(* whether the key is inline or in big storage.                            *)
(***************************************************************************)
\* the entries of the list that are in the tag set
MatchCount(tags, ts) == Cardinality({i \in 1..Len(ts) : ts[i] \in tags})

C19_KofNThreshold ==
    LET tags == [k \in DOMAIN index |-> horizontal_query(DB, k).val]
        orders == BigOrders(DB)
    IN \A ts \in QueryLists :
          \A b \in 1..(MaxQueryTerms + 1), ord \in orders :
             LET r == vertical_query(DB, [type |-> "KofN", terms |-> ts, bound |-> b], ord)
             IN /\ r.ok
                /\ NoDuplicates(r.val)
                /\ Range(r.val) = {k \in DOMAIN index : MatchCount(tags[k], ts) >= b}

\* a query with bound 2 returns the migrated key that holds both terms and
\* not the inline key that holds one of them
C19_Witness ==
    \E ts \in QueryLists :
        /\ Len(ts) = 2 /\ ts[1] # ts[2]
        /\ \E k \in DOMAIN index :
              /\ index[k] = Big
              /\ vertical_query(DB, [type |-> "KofN", terms |-> ts, bound |-> 2],
                                CHOOSE o \in BigOrders(DB) : TRUE).val = <<k>>
        /\ \E k \in DOMAIN index :
              /\ index[k].tag = "Small"
              /\ MatchCount(horizontal_query(DB, k).val, ts) = 1

(***************************************************************************)
(* C20: vertical_query with a term that is not interned fails and returns  *)
(* no keys: Simple names that term, KofN names the first term of the list  *)
(* that is not interned, whatever comes before or after it.                *)
(***************************************************************************)
AllStrings == {Str(i) : i \in 1..NumTerms}

AnyLists == UNION {[1..n -> AllStrings] : n \in 1..MaxQueryTerms}

C20_UnknownTermFails ==
    \A ord \in BigOrders(DB) :
        /\ \A t \in AllStrings \ Interned :
              vertical_query(DB, [type |-> "Simple", term |-> t], ord)
                  = [ok |-> FALSE, err |-> t, val |-> <<>>]
        /\ \A ts \in AnyLists :
              (\E i \in 1..Len(ts) : ts[i] \notin Interned) =>
                  LET first == CHOOSE i \in 1..Len(ts) :
                                  /\ ts[i] \notin Interned
                                  /\ \A j \in 1..(i - 1) : ts[j] \in Interned
                  IN \A b \in 0..1 :
                        vertical_query(DB, [type |-> "KofN", terms |-> ts, bound |-> b], ord)
                            = [ok |-> FALSE, err |-> ts[first], val |-> <<>>]

\* a key holds an interned term and two strings are not interned: a list
\* with the interned term first, and a list of the two unknown strings
C20_Witness ==
    \E a \in Interned, b \in AllStrings \ Interned, c \in AllStrings \ Interned :
        /\ b # c
        /\ \E k \in DOMAIN index : a \in horizontal_query(DB, k).val
        /\ \A o \in BigOrders(DB) :
              /\ vertical_query(DB, [type |-> "KofN", terms |-> <<a, b>>, bound |-> 1], o).err = b
              /\ vertical_query(DB, [type |-> "KofN", terms |-> <<b, c>>, bound |-> 1], o).err = b

(***************************************************************************)
(* C21: dump writes the terms in ascending id order and the bound inline   *)
(* slots only, in slot order; after load every term has the id it had,     *)
(* the inline key at position i of the compacted list has Index entry      *)
(* Small(i) with slot i bound to it and holding its Smallset, every        *)
(* big-storage key has entry Big, the free-slot list is empty, and the     *)
(* next newly interned term receives id (number of terms + 1).             *)
(***************************************************************************)
\* the offsets of the bound inline slots, in ascending order
BoundSlots ==
    SelectSeq([i \in 1..Len(small_keys) |-> i], LAMBDA i : small_keys[i] # NoKey)

C21_CompactionAndRebuild ==
    LET d == dump(DB)
        l == load(d)
        n == Cardinality(Interned)
    IN /\ Len(d.terms) = n
       /\ \A i \in 1..n : d.terms[i] \in Interned /\ terms.forward[d.terms[i]] = i
       /\ Len(d.small_keys) = Len(BoundSlots)
       /\ Len(d.small_storage) = Len(BoundSlots)
       /\ \A j \in 1..Len(BoundSlots) :
             /\ d.small_keys[j] = small_keys[BoundSlots[j]]
             /\ d.small_storage[j] = small_storage[BoundSlots[j]]
       /\ d.big_storage = big_storage
       /\ l.ok
       /\ l.db.terms.forward = terms.forward
       /\ l.db.terms.backward = terms.backward
       /\ \A j \in 1..Len(d.small_keys) :
             /\ d.small_keys[j] \in DOMAIN l.db.index
             /\ l.db.index[d.small_keys[j]] = Small(j - 1)
             /\ l.db.small_keys[j] = d.small_keys[j]
             /\ get_view(l.db, j - 1) = [some |-> TRUE, val |-> d.small_storage[j]]
       /\ \A k \in DOMAIN big_storage :
             k \in DOMAIN l.db.index /\ l.db.index[k] = Big
       /\ DOMAIN l.db.index = DOMAIN index
       /\ l.db.holes = <<>>
       /\ n < MaxTerms =>
             \A t \in {Str(i) : i \in 1..(NumTerms + 1)} \ Interned :
                add_term(l.db, t) = [db |-> [l.db EXCEPT !.terms =
                                                DoubleMapInsert(l.db.terms, t, n + 1)],
                                     ok |-> TRUE, val |-> n + 1]

\* the dumped state has a vacated slot in front of a bound one, so that the
\* key of slot 1 is loaded into slot 0, a migrated key, and two terms
\* interned in the other order than the order of their strings
C21_Witness ==
    /\ Len(small_keys) = 2 /\ small_keys[1] = NoKey /\ small_keys[2] # NoKey
    /\ holes = <<0>>
    /\ index[small_keys[2]] = Small(1)
    /\ size(small_storage[2]) >= 1
    /\ DOMAIN big_storage # {}
    /\ Str(2) \in Interned /\ Str(1) \in Interned
    /\ terms.forward[Str(2)] < terms.forward[Str(1)]
    /\ dump(DB).small_keys = <<small_keys[2]>>
    /\ load(dump(DB)).db.holes = <<>>

(***************************************************************************)
(* C22: a key becomes Big only in a set_flag call on that key, made while  *)
(* its Smallset holds SMALLSIZE terms, with a term the key does not have;  *)
(* a key given at most SMALLSIZE distinct terms is Small; and set_flag of  *)
(* a term the key has, on a key whose Smallset is full, returns Ok(false)  *)
(* and leaves the engine as it was.                                        *)
(***************************************************************************)
C22_MigrationOnlyOnOverflow ==
    [][\A k \in Keys :
         /\ (/\ k \in DOMAIN index'
             /\ index'[k] = Big
             /\ ~(k \in DOMAIN index /\ index[k] = Big)) =>
                /\ last' = [op |-> "set_flag", key |-> k, term |-> last'.term,
                            ok |-> TRUE, val |-> TRUE]
                /\ k \in DOMAIN index
                /\ index[k].tag = "Small"
                /\ size(get_view(DB, index[k].off).val) = SMALLSIZE
                /\ Cardinality(horizontal_query(DB, k).val) = SMALLSIZE
                /\ last'.term \notin horizontal_query(DB, k).val
         /\ (k \in DOMAIN index' /\ Cardinality(given'[k]) <= SMALLSIZE) =>
                index'[k].tag = "Small"
         /\ (/\ k \in DOMAIN index'
             /\ index'[k].tag = "Small"
             /\ size(get_view(DBNext, index'[k].off).val) = SMALLSIZE) =>
                \A t \in horizontal_query(DBNext, k).val :
                   set_flag(DBNext, k, t)
                      = [db |-> DBNext, ok |-> TRUE, val |-> FALSE, retries |-> 0]]_vars

\* set_flag of a term the key has returned Ok(false) on a key whose
\* Smallset is full, and the key is still inline
C22_Witness ==
    /\ last.op = "set_flag" /\ last.ok /\ last.val = FALSE
    /\ index[last.key].tag = "Small"
    /\ size(get_view(DB, index[last.key].off).val) = SMALLSIZE
    /\ last.term \in horizontal_query(DB, last.key).val

\* set_flag of one more term has migrated a key whose Smallset was full
C22_WitnessMigrated ==
    /\ last.op = "set_flag" /\ last.ok /\ last.val = TRUE
    /\ index[last.key] = Big
    /\ given[last.key] = horizontal_query(DB, last.key).val
    /\ Cardinality(given[last.key]) = SMALLSIZE + 1
    /\ holes # <<>>

(***************************************************************************)
(* C25: a set_flag(k, t) that returns the term-capacity error changes      *)
(* nothing: no term is interned, k is not created if it was unknown, and   *)
(* no key's tag set or tier changes; no statement of the call writes to    *)
(* the Database.                                                           *)
(***************************************************************************)
C25_FailedSetFlagChangesNothing ==
    [][/\ (last'.op = "set_flag" /\ ~last'.ok) =>
             /\ UNCHANGED engine_vars
             /\ last'.term \notin Interned
             /\ \A k \in Keys : horizontal_query(DBNext, k) = horizontal_query(DB, k)
       /\ \A k \in Keys, t \in InternInputs(Len(seen')) :
             LET r == set_flag(DBNext, k, t) IN
             ~r.ok =>
                /\ r.db = DBNext
                /\ set_flag_steps(DBNext, k, t) = <<>>]_vars

\* set_flag was refused for the 254th string on a key that is unknown, and
\* the key is still unknown
C25_Witness ==
    /\ last.op = "set_flag" /\ ~last.ok
    /\ DoubleMapLen(terms) = MaxTerms
    /\ last.term \notin Interned
    /\ last.key \notin DOMAIN index
    /\ small_keys = <<>>

(***************************************************************************)
(* C24: after any sequence of create_record, add_term and set_flag calls   *)
(* the free-slot list holds exactly the offsets of the inline slots whose  *)
(* key binding is absent, each once, every offset is a slot of the inline  *)
(* array, and small_storage has one Smallset for each entry of small_keys. *)
(***************************************************************************)
\* the offsets of the inline slots that are bound to no key
VacatedSlots == {i - 1 : i \in {j \in 1..Len(small_keys) : small_keys[j] = NoKey}}

C24_FreeSlotList ==
    /\ Range(holes) = VacatedSlots
    /\ NoDuplicates(holes)
    /\ \A i \in 1..Len(holes) :
          /\ holes[i] \in 0..(Len(small_keys) - 1)
          /\ get_view(DB, holes[i]).some
    /\ Len(small_storage) = Len(small_keys)
    /\ \A i \in 1..Len(small_storage) : DOMAIN small_storage[i] = Slots

\* two keys were migrated, the later-created one first, and the slot
\* between the two they left is bound
C24_Witness ==
    /\ Len(holes) = 2
    /\ holes[1] > holes[2]
    /\ Len(small_keys) = 3
    /\ small_keys[2] # NoKey
    /\ Cardinality(DOMAIN big_storage) = 2

\* a key was created in the last slot of a free-slot list of two entries
C24_WitnessPopped ==
    /\ Len(holes) = 1
    /\ Cardinality(DOMAIN big_storage) = 2
    /\ Len(small_keys) = 2
    /\ \E i \in 1..2 : small_keys[i] # NoKey /\ small_storage[i] = new_empty

(***************************************************************************)
(* C23: for every document load either returns an error or returns an     *)
(* engine in which every key of the Index has backing storage in exactly   *)
(* one tier (a Small(offset) key has a Smallset at that offset, no key is  *)
(* bound to an inline slot and present in big storage) and                 *)
(* horizontal_query succeeds for every key of the Index; a document whose  *)
(* key list and set list differ in length, or that lists a key in both     *)
(* tiers, is rejected.                                                     *)
(***************************************************************************)
C23_LoadNeverCorrupts ==
    /\ loaded \in {"none", "ok", "err"}
    /\ loaded = "ok" =>
          /\ \A k \in DOMAIN index :
                /\ index[k].tag = "Small" => get_view(DB, index[k].off).some
                /\ index[k].tag = "Big" => k \in DOMAIN big_storage
                /\ horizontal_query(DB, k).some
          /\ \A i \in 1..Len(small_keys) :
                small_keys[i] # NoKey => small_keys[i] \notin DOMAIN big_storage
    /\ (/\ loaded # "none"
        /\ load_doc.decodes
        /\ \/ Len(load_doc.small_keys) # Len(load_doc.small_storage)
           \/ \E i \in 1..Len(load_doc.small_keys) :
                 load_doc.small_keys[i] \in DOMAIN load_doc.big_storage) =>
          loaded = "err"

====
